---- MODULE Spec2Model ----
(***************************************************************************)
(* Model of main.py: a Streamlit dashboard that loads monthly car-part     *)
(* sales from a Supabase table, plots the selected parts and forecasts     *)
(* their demand with StatsForecast.  The script is re-executed top to      *)
(* bottom on every user interaction; what survives from one execution to   *)
(* the next are the caches of the st.cache_resource / st.cache_data        *)
(* decorators, the widget values the browser holds, and the database.      *)
(***************************************************************************)
EXTENDS Integers, Sequences, FiniteSets, TLC

VARIABLES
    db,        \* rows of the table car_parts_monthly_sales (external store)
    now,       \* wall clock, in seconds
    conn,      \* cache of init_connection   (st.cache_resource)
    rq,        \* cache of run_query         (st.cache_data, ttl = 600)
    dfc,       \* cache of create_dataframe  (st.cache_data, ttl = 600)
    plot,      \* cache of plot_volume       (st.cache_data), keyed by ids
    fmt,       \* cache of format_dataset    (st.cache_data), keyed by ids
    sf,        \* cache of create_sf_object  (st.cache_resource), keyed by model_df
    pred,      \* cache of make_predictions  (st.cache_data), keyed by <<ids, horizon>>
    clients,   \* number of clients create_client has constructed so far
    run,       \* the latest execution of the script: its globals, its page, its calls
    ticks,     \* number of clock advances so far
    writes,    \* number of database writes so far
    forecasts  \* number of invocations of the forecasting library so far

vars == <<db, now, conn, rq, dfc, plot, fmt, sf, pred, clients, run, ticks,
          writes, forecasts>>

----------------------------------------------------------------------------
(* Program constants *)

\* @st.cache_data(ttl=600)
TTL == 600
\* st.slider("Horizon", 1, 12, step=1)
SliderMin == 1
SliderMax == 12

(* Bounds of the model *)

\* rows in the table
MaxRows == 2
\* clock advances in one behaviour
MaxTicks == 2
\* database writes in one behaviour
MaxDbWrites == 2
\* invocations of the forecasting library in one behaviour
MaxForecasts == 2

\* The part identifiers that occur in the table, in sort order.
PartOrder == <<"A", "B">>
Parts == {PartOrder[i] : i \in 1..Len(PartOrder)}

----------------------------------------------------------------------------
(* Values *)

Range(s) == {s[i] : i \in 1..Len(s)}

\* A JSON value of the volume field: a number, a string or null.
IntV(n) == [kind |-> "int", n |-> n, txt |-> <<>>]
StrV(t) == [kind |-> "str", n |-> 0, txt |-> t]
NullV == [kind |-> "null", n |-> 0, txt |-> <<>>]

Digits == <<"0", "1", "2", "3", "4", "5", "6", "7", "8", "9">>
IsDigit(c) == \E i \in 1..Len(Digits) : Digits[i] = c
DigitVal(c) == (CHOOSE i \in 1..Len(Digits) : Digits[i] = c) - 1

RECURSIVE DigitsVal(_)
DigitsVal(t) ==
    IF t = <<>> THEN 0
    ELSE 10 * DigitsVal(SubSeq(t, 1, Len(t) - 1)) + DigitVal(t[Len(t)])

AllDigits(t) == t # <<>> /\ \A i \in 1..Len(t) : IsDigit(t[i])

\* Python's int(str): an optional sign followed by decimal digits.
IntParses(t) ==
    \/ AllDigits(t)
    \/ t # <<>> /\ t[1] \in {"-", "+"} /\ AllDigits(Tail(t))

ParseInt(t) ==
    IF t[1] = "-" THEN 0 - DigitsVal(Tail(t))
    ELSE IF t[1] = "+" THEN DigitsVal(Tail(t))
    ELSE DigitsVal(t)

\* What astype(int) accepts, and what it makes of it.
Convertible(v) ==
    \/ v.kind = "int"
    \/ v.kind = "str" /\ IntParses(v.txt)

\* The integer a convertible value becomes.
ToInt(v) == IntV(IF v.kind = "int" THEN v.n ELSE ParseInt(v.txt))

\* A row of the table: row i has row id i and month i.
Row(i, p, v) == [id |-> i, parts_id |-> p, date |-> i, volume |-> v]

\* The tables of at most MaxRows rows over the parts P and the volumes V.
TablesOver(P, V) ==
    UNION {
        {[i \in 1..n |-> Row(i, ps[i], vs[i])] :
            ps \in [1..n -> P], vs \in [1..n -> V]}
        : n \in 0..MaxRows}

----------------------------------------------------------------------------
(* pandas *)

\* pd.json_normalize(rows): one column per key of the records.
json_normalize(rows) ==
    [columns |-> UNION {DOMAIN rows[i] : i \in 1..Len(rows)}, rows |-> rows]

\* df["volume"].astype(int), for a frame whose volume values all convert.
astype_int(df) ==
    [df EXCEPT !.rows = [i \in 1..Len(df.rows) |->
                            [df.rows[i] EXCEPT !.volume = ToInt(@)]]]

RECURSIVE Unique(_)
\* Series.unique(): the distinct values in order of first appearance.
Unique(s) ==
    IF s = <<>> THEN <<>>
    ELSE LET u == Unique(SubSeq(s, 1, Len(s) - 1))
             x == s[Len(s)]
         IN  IF x \in Range(u) THEN u ELSE Append(u, x)

Column(df, c) == [i \in 1..Len(df.rows) |-> df.rows[i][c]]

\* df[df[c].isin(ids)]
FilterIsin(df, c, ids) ==
    [df EXCEPT !.rows = SelectSeq(df.rows, LAMBDA r : r[c] \in Range(ids))]

\* df.drop([c], axis=1)
DropColumn(df, c) ==
    [columns |-> df.columns \ {c},
     rows |-> [i \in 1..Len(df.rows) |->
                 [k \in DOMAIN df.rows[i] \ {c} |-> df.rows[i][k]]]]

\* {"parts_id": "unique_id", "date": "ds", "volume": "y"}
RenameMap(k) ==
    CASE k = "parts_id" -> "unique_id"
      [] k = "date" -> "ds"
      [] k = "volume" -> "y"
      [] OTHER -> k

\* df.rename(mapper, axis=1)
RenameColumns(df) ==
    [columns |-> {RenameMap(k) : k \in df.columns},
     rows |-> [i \in 1..Len(df.rows) |->
                 [k2 \in {RenameMap(k) : k \in DOMAIN df.rows[i]} |->
                     df.rows[i][CHOOSE k \in DOMAIN df.rows[i] : RenameMap(k) = k2]]]]

NoFrame == [columns |-> {}, rows |-> <<>>]

----------------------------------------------------------------------------
(* statsforecast *)

\* The identifiers of a frame in sort order (StatsForecast sorts the series).
SortedIds(model_df) ==
    SelectSeq(PartOrder, LAMBDA p : \E i \in 1..Len(model_df.rows) :
                                        model_df.rows[i].unique_id = p)

SeriesOf(model_df, p) == SelectSeq(model_df.rows, LAMBDA r : r.unique_id = p)

\* The forecast of one series over h periods: one row per future month.  The
\* point forecast is a deterministic function of the series' history, which
\* stands for it here.
ForecastSeries(model_df, p, h) ==
    LET hist == SeriesOf(model_df, p)
        ys == [i \in 1..Len(hist) |-> hist[i].y]
        last == hist[Len(hist)].ds
    IN  [k \in 1..h |-> [unique_id |-> p, ds |-> last + k, CrostonOptimized |-> ys]]

RECURSIVE Concat(_)
Concat(ss) == IF ss = <<>> THEN <<>> ELSE Head(ss) \o Concat(Tail(ss))

\* sf.forecast(h=horizon)
Forecast(model_df, h) ==
    LET ids == SortedIds(model_df)
    IN  Concat([j \in 1..Len(ids) |-> ForecastSeries(model_df, ids[j], h)])

\* forecast_df.to_csv(header=True)
to_csv(forecast_df) ==
    [header |-> <<"unique_id", "ds", "CrostonOptimized">>, rows |-> forecast_df]

NoCsv == [header |-> <<>>, rows |-> <<>>]

----------------------------------------------------------------------------
(* The caching decorators *)

\* The single key of a function without arguments.
NoArgs == <<>>

Cached(cache, key) == key \in DOMAIN cache

\* An entry of a cache with a time-to-live is served while the clock is
\* before its expiry; an expired entry is a miss, and stays in the cache
\* until the next store replaces it.
Fresh(entry, t) == t < entry.at + TTL

CachedFresh(cache, key, t) == Cached(cache, key) /\ Fresh(cache[key], t)

Store(cache, key, value) == [k \in DOMAIN cache \cup {key} |->
                               IF k = key THEN value ELSE cache[k]]

----------------------------------------------------------------------------
(* One execution of the script.  An execution state s holds the caches, the *)
(* clock and the database next to the fields of run; every function of the  *)
(* script maps an execution state to the next one, and an exception (err)   *)
(* ends the execution where it is raised.                                   *)

NoDownload == [data |-> NoCsv, file_name |-> "", mime |-> ""]

\* The script's globals, its page and its calls before its first line.
FreshRun ==
    [supabase |-> 0, df |-> NoFrame, options |-> <<>>, product_ids |-> <<>>,
     horizon |-> 0, forecast_btn |-> FALSE, csv_file |-> NoCsv,
     ui |-> {}, chart |-> <<>>, download |-> NoDownload, err |-> "none",
     clientCalls |-> 0, rqCalls |-> 0, dbQueries |-> 0, dfBuilds |-> 0,
     dfRebuilt |-> FALSE, plotCalls |-> 0, fmtCalls |-> 0, sfBuilds |-> 0,
     mpCalls |-> 0, forecastCalls |-> 0, forecast_h |-> 0, raised |-> FALSE]

\* What the environment decides during one execution: whether the client can
\* be constructed, whether the store answers, whether the forecast succeeds,
\* and the seconds create_dataframe takes after its query.
Delays == {0, 1}
Envs == [connOk : BOOLEAN, queryOk : BOOLEAN, fcOk : BOOLEAN, delay : Delays]

Raise(s, e) == [s EXCEPT !.run.err = e]

Render(s, el) == [s EXCEPT !.run.ui = @ \cup {el}]

\* init_connection without its decorator: every execution constructs a client.
init_connection_undecorated(s, env) ==
    LET c == [s EXCEPT !.run.clientCalls = @ + 1]
    IN  IF env.connOk
        THEN [c EXCEPT !.clients = @ + 1,
                       !.conn = Store(@, NoArgs, s.clients + 1),
                       !.run.supabase = s.clients + 1]
        ELSE Raise(c, "connection")

\* init_connection(), memoized for the life of the process
init_connection(s, env) ==
    IF Cached(s.conn, NoArgs)
    THEN [s EXCEPT !.run.supabase = s.conn[NoArgs]]
    ELSE LET c == [s EXCEPT !.run.clientCalls = @ + 1]
         IN  IF env.connOk
             THEN [c EXCEPT !.clients = @ + 1,
                            !.conn = Store(@, NoArgs, s.clients + 1),
                            !.run.supabase = s.clients + 1]
             ELSE Raise(c, "connection")

\* run_query cached without a time-to-live: a stored result never expires.
run_query_no_ttl(s, env) ==
    LET c == [s EXCEPT !.run.rqCalls = @ + 1]
    IN  IF Cached(s.rq, NoArgs)
        THEN c
        ELSE LET q == [c EXCEPT !.run.dbQueries = @ + 1]
             IN  IF env.queryOk
                 THEN [q EXCEPT !.rq = Store(@, NoArgs, [at |-> s.now, value |-> s.db])]
                 ELSE Raise(q, "query")

\* run_query(), cached for TTL seconds
run_query(s, env) ==
    LET c == [s EXCEPT !.run.rqCalls = @ + 1]
    IN  IF CachedFresh(s.rq, NoArgs, s.now)
        THEN c
        ELSE LET q == [c EXCEPT !.run.dbQueries = @ + 1]
             IN  IF env.queryOk
                 THEN [q EXCEPT !.rq = Store(@, NoArgs, [at |-> s.now, value |-> s.db])]
                 ELSE Raise(q, "query")

\* create_dataframe converting the volumes that convert and keeping the rest
\* (errors="ignore" per value) instead of failing.
create_dataframe_partial(s, env) ==
    IF CachedFresh(s.dfc, NoArgs, s.now)
    THEN [s EXCEPT !.run.df = s.dfc[NoArgs].value]
    ELSE LET b == [s EXCEPT !.run.dfBuilds = @ + 1]
             q == run_query(b, env)
             df == json_normalize(q.rq[NoArgs].value)
             t == [q EXCEPT !.now = @ + env.delay]
             part == [df EXCEPT !.rows = [i \in 1..Len(df.rows) |->
                        IF Convertible(df.rows[i].volume)
                        THEN [df.rows[i] EXCEPT !.volume = ToInt(@)]
                        ELSE df.rows[i]]]
         IN  IF q.run.err # "none" THEN q
             ELSE IF "volume" \notin df.columns THEN Raise(t, "KeyError")
             ELSE [t EXCEPT !.dfc = Store(@, NoArgs, [at |-> t.now, value |-> part]),
                            !.run.df = part,
                            !.run.dfRebuilt = TRUE]

\* create_dataframe with a time-to-live of one minute, shorter than run_query's.
create_dataframe_short_ttl(s, env) ==
    IF Cached(s.dfc, NoArgs) /\ s.now < s.dfc[NoArgs].at + 60
    THEN [s EXCEPT !.run.df = s.dfc[NoArgs].value]
    ELSE LET b == [s EXCEPT !.run.dfBuilds = @ + 1]
             q == run_query(b, env)
             df == json_normalize(q.rq[NoArgs].value)
             t == [q EXCEPT !.now = @ + env.delay]
         IN  IF q.run.err # "none" THEN q
             ELSE IF "volume" \notin df.columns THEN Raise(t, "KeyError")
             ELSE IF \E i \in 1..Len(df.rows) : ~Convertible(df.rows[i].volume)
                  THEN Raise(t, "ValueError")
             ELSE [t EXCEPT !.dfc = Store(@, NoArgs, [at |-> t.now, value |-> astype_int(df)]),
                            !.run.df = astype_int(df),
                            !.run.dfRebuilt = TRUE]

\* create_dataframe(), cached for TTL seconds
create_dataframe(s, env) ==
    IF CachedFresh(s.dfc, NoArgs, s.now)
    THEN [s EXCEPT !.run.df = s.dfc[NoArgs].value]
    ELSE LET b == [s EXCEPT !.run.dfBuilds = @ + 1]
             q == run_query(b, env)
             df == json_normalize(q.rq[NoArgs].value)
             t == [q EXCEPT !.now = @ + env.delay]
         IN  IF q.run.err # "none" THEN q
             ELSE IF "volume" \notin df.columns THEN Raise(t, "KeyError")
             ELSE IF \E i \in 1..Len(df.rows) : ~Convertible(df.rows[i].volume)
                  THEN Raise(t, "ValueError")
             ELSE [t EXCEPT !.dfc = Store(@, NoArgs, [at |-> t.now, value |-> astype_int(df)]),
                            !.run.df = astype_int(df),
                            !.run.dfRebuilt = TRUE]

\* The figure plot_volume draws: one line per identifier, from the global df.
Figure(df, ids) ==
    [j \in 1..Len(ids) |->
        LET part == FilterIsin(df, "parts_id", <<ids[j]>>)
        IN  [label |-> ids[j], x |-> Column(part, "date"), y |-> Column(part, "volume")]]

\* plot_volume(ids), cached: a cached call replays the figure it drew
plot_volume(s, ids) ==
    LET c == [s EXCEPT !.run.plotCalls = @ + 1]
        fig == IF Cached(s.plot, ids) THEN s.plot[ids] ELSE Figure(s.run.df, ids)
    IN  [Render(c, "chart") EXCEPT !.plot = Store(@, ids, fig), !.run.chart = fig]

\* format_dataset without the isin filter: every row of the table is kept.
FormatFrame_unfiltered(df, ids) == RenameColumns(DropColumn(df, "id"))

\* The frame format_dataset builds from the global df.
FormatFrame(df, ids) ==
    RenameColumns(DropColumn(FilterIsin(df, "parts_id", ids), "id"))

\* format_dataset(ids), cached; the frame is read from the cache
format_dataset(s, ids) ==
    LET c == [s EXCEPT !.run.fmtCalls = @ + 1]
    IN  IF Cached(s.fmt, ids) THEN c
        ELSE IF "id" \notin s.run.df.columns THEN Raise(c, "KeyError")
        ELSE [c EXCEPT !.fmt = Store(@, ids, FormatFrame(s.run.df, ids))]

\* create_sf_object(model_df), memoized by the frame's contents
create_sf_object(s, model_df) ==
    IF Cached(s.sf, model_df) THEN s
    ELSE [s EXCEPT !.run.sfBuilds = @ + 1,
                   !.sf = Store(@, model_df, [df |-> model_df, freq |-> "MS"])]

\* make_predictions forecasting one period short (h=horizon - 1).
make_predictions_short(s, ids, horizon, env) ==
    LET c == [s EXCEPT !.run.mpCalls = @ + 1]
        key == <<ids, horizon>>
        f == format_dataset(c, ids)
        o == create_sf_object(f, f.fmt[ids])
        l == [o EXCEPT !.run.forecastCalls = @ + 1, !.run.forecast_h = horizon - 1,
                       !.run.raised = ~env.fcOk, !.forecasts = @ + 1]
        csv == to_csv(Forecast(o.sf[f.fmt[ids]].df, horizon - 1))
    IN  IF Cached(s.pred, key) THEN [c EXCEPT !.run.csv_file = s.pred[key]]
        ELSE IF f.run.err # "none" THEN f
        ELSE IF ~env.fcOk THEN Raise(l, "forecast")
        ELSE [l EXCEPT !.pred = Store(@, key, csv), !.run.csv_file = csv]

\* make_predictions catching the library's exception and returning, and
\* storing, an empty CSV.
make_predictions_swallow(s, ids, horizon, env) ==
    LET c == [s EXCEPT !.run.mpCalls = @ + 1]
        key == <<ids, horizon>>
        f == format_dataset(c, ids)
        o == create_sf_object(f, f.fmt[ids])
        l == [o EXCEPT !.run.forecastCalls = @ + 1, !.run.forecast_h = horizon,
                       !.run.raised = ~env.fcOk, !.forecasts = @ + 1]
        csv == IF env.fcOk THEN to_csv(Forecast(o.sf[f.fmt[ids]].df, horizon))
               ELSE to_csv(<<>>)
    IN  IF Cached(s.pred, key) THEN [c EXCEPT !.run.csv_file = s.pred[key]]
        ELSE IF f.run.err # "none" THEN f
        ELSE [l EXCEPT !.pred = Store(@, key, csv), !.run.csv_file = csv]

\* make_predictions(ids, horizon), cached; the CSV is left in csv_file
make_predictions(s, ids, horizon, env) ==
    LET c == [s EXCEPT !.run.mpCalls = @ + 1]
        key == <<ids, horizon>>
        f == format_dataset(c, ids)
        o == create_sf_object(f, f.fmt[ids])
        l == [o EXCEPT !.run.forecastCalls = @ + 1, !.run.forecast_h = horizon,
                       !.run.raised = ~env.fcOk, !.forecasts = @ + 1]
        csv == to_csv(Forecast(o.sf[f.fmt[ids]].df, horizon))
    IN  IF Cached(s.pred, key) THEN [c EXCEPT !.run.csv_file = s.pred[key]]
        ELSE IF f.run.err # "none" THEN f
        ELSE IF ~env.fcOk THEN Raise(l, "forecast")
        ELSE [l EXCEPT !.pred = Store(@, key, csv), !.run.csv_file = csv]

\* The Forecast expander without the test of the selection's length.
ForecastPanel_unguarded(s, h, btn, env) ==
    LET e == Render(s, "expander")
        sl == [Render(e, "slider") EXCEPT !.run.horizon = h]
        bt == [Render(sl, "button") EXCEPT !.run.forecast_btn = btn]
        mp == make_predictions(bt, bt.run.product_ids, bt.run.horizon, env)
    IN  IF ~btn THEN bt
        ELSE IF mp.run.err # "none" THEN mp
        ELSE [Render(mp, "download") EXCEPT
                 !.run.download = [data |-> mp.run.csv_file,
                                   file_name |-> "prediction.csv",
                                   mime |-> "text/csv"]]

\* The Forecast expander offering the forecast of the slider's default
\* horizon whatever the slider holds.
ForecastPanel_default_horizon(s, h, btn, env) ==
    LET e == Render(s, "expander")
        sl == [Render(e, "slider") EXCEPT !.run.horizon = h]
        bt == [Render(sl, "button") EXCEPT !.run.forecast_btn = btn]
        mp == make_predictions(bt, bt.run.product_ids, SliderMin, env)
    IN  IF Len(e.run.product_ids) = 0 THEN Render(e, "warning")
        ELSE IF ~btn THEN bt
        ELSE IF mp.run.err # "none" THEN mp
        ELSE [Render(mp, "download") EXCEPT
                 !.run.download = [data |-> mp.run.csv_file,
                                   file_name |-> "prediction.csv",
                                   mime |-> "text/csv"]]

\* The Forecast expander
ForecastPanel(s, h, btn, env) ==
    LET e == Render(s, "expander")
        sl == [Render(e, "slider") EXCEPT !.run.horizon = h]
        bt == [Render(sl, "button") EXCEPT !.run.forecast_btn = btn]
        mp == make_predictions(bt, bt.run.product_ids, bt.run.horizon, env)
    IN  IF Len(e.run.product_ids) = 0 THEN Render(e, "warning")
        ELSE IF ~btn THEN bt
        ELSE IF mp.run.err # "none" THEN mp
        ELSE [Render(mp, "download") EXCEPT
                 !.run.download = [data |-> mp.run.csv_file,
                                   file_name |-> "prediction.csv",
                                   mime |-> "text/csv"]]

\* The body of the script under __main__, after the connection is made.
\* The multiselect keeps the value the browser sent only while its options
\* are the ones the browser was shown; otherwise it starts empty.
Main(s, shown, sel, h, btn, env) ==
    LET d == create_dataframe(Render(s, "title"), env)
        opts == Unique(Column(d.run.df, "parts_id"))
        m == [Render(Render(d, "subheader"), "multiselect") EXCEPT
                 !.run.options = opts,
                 !.run.product_ids = IF opts = shown THEN sel ELSE <<>>]
        p == plot_volume(m, m.run.product_ids)
    IN  IF d.run.err # "none" THEN d
        ELSE ForecastPanel(p, h, btn, env)

\* One execution of the whole script.
Script(s, shown, sel, h, btn, env) ==
    LET c == init_connection([s EXCEPT !.run = FreshRun], env)
    IN  IF c.run.err # "none" THEN c
        ELSE Main(c, shown, sel, h, btn, env)

----------------------------------------------------------------------------
(* The system: the process, its user and its environment *)

\* The selections a multiselect over opts can hold, in the order selected.
Selections(opts) ==
    {s \in UNION {[1..n -> Range(opts)] : n \in 0..Len(opts)} :
        \A i, j \in 1..Len(s) : i # j => s[i] # s[j]}

\* The selections of at most k parts.
SelectionsUpTo(opts, k) == {s \in Selections(opts) : Len(s) <= k}

\* The value the slider holds: a widget that was not rendered loses its value.
SliderValue == IF "slider" \in run.ui THEN run.horizon ELSE SliderMin

Exec ==
    [db |-> db, now |-> now, conn |-> conn, rq |-> rq, dfc |-> dfc, plot |-> plot,
     fmt |-> fmt, sf |-> sf, pred |-> pred, clients |-> clients,
     forecasts |-> forecasts, run |-> run]

\* The decisions of the environment an execution can meet: one it cannot
\* observe (the store's answer while the frame is cached, the forecast's
\* outcome without a press) is left at its default.
EnvsFor(btn, D) ==
    {e \in Envs :
        /\ e.delay \in D
        /\ Cached(conn, NoArgs) => e.connOk
        /\ CachedFresh(dfc, NoArgs, now) => e.queryOk /\ e.delay = 0
        /\ CachedFresh(rq, NoArgs, now) => e.queryOk
        /\ ~btn => e.fcOk}

\* The state an execution leaves behind.
Leaves(s) ==
    /\ now' = s.now
    /\ conn' = s.conn
    /\ rq' = s.rq
    /\ dfc' = s.dfc
    /\ plot' = s.plot
    /\ fmt' = s.fmt
    /\ sf' = s.sf
    /\ pred' = s.pred
    /\ clients' = s.clients
    /\ forecasts' = s.forecasts
    /\ run' = s.run
    /\ ticks' = IF s.now > now THEN ticks + 1 ELSE ticks
    /\ ticks' <= MaxTicks
    /\ forecasts' <= MaxForecasts
    /\ UNCHANGED <<db, writes>>

\* The process has started and no browser has connected yet.
InitIn(T) ==
    /\ db \in T
    /\ now = 0
    /\ conn = <<>>
    /\ rq = <<>>
    /\ dfc = <<>>
    /\ plot = <<>>
    /\ fmt = <<>>
    /\ sf = <<>>
    /\ pred = <<>>
    /\ clients = 0
    /\ run = FreshRun
    /\ ticks = 0
    /\ writes = 0
    /\ forecasts = 0

\* A browser opens or reloads the page: every widget starts at its default.
UserLoad(D) ==
    \E env \in EnvsFor(FALSE, D) :
        Leaves(Script(Exec, run.options, <<>>, SliderMin, FALSE, env))

\* The user asks for a rerun; the widgets keep their values.
UserRerun(D) ==
    /\ run.ui # {}
    /\ \E env \in EnvsFor(FALSE, D) :
          Leaves(Script(Exec, run.options, run.product_ids, SliderValue, FALSE, env))

\* The user changes the selection of the multiselect to one of at most k parts.
UserSelect(k, D) ==
    /\ "multiselect" \in run.ui
    /\ \E sel \in SelectionsUpTo(run.options, k) \ {run.product_ids}, env \in EnvsFor(FALSE, D) :
          Leaves(Script(Exec, run.options, sel, SliderValue, FALSE, env))

\* The user moves the horizon slider to a value of H.
UserSlide(H, D) ==
    /\ "slider" \in run.ui
    /\ \E h \in (H \cap (SliderMin..SliderMax)) \ {run.horizon}, env \in EnvsFor(FALSE, D) :
          Leaves(Script(Exec, run.options, run.product_ids, h, FALSE, env))

\* The user presses the Forecast button.
UserPress(D) ==
    /\ "button" \in run.ui
    /\ \E env \in EnvsFor(TRUE, D) :
          Leaves(Script(Exec, run.options, run.product_ids, run.horizon, TRUE, env))

\* Time passes between two executions: a number of seconds of S.
Tick(S) ==
    /\ ticks < MaxTicks
    /\ \E d \in S : now' = now + d
    /\ ticks' = ticks + 1
    /\ UNCHANGED <<db, conn, rq, dfc, plot, fmt, sf, pred, clients, run, writes, forecasts>>

\* Another client of the store inserts a row: the next month of a part.
DbInsert(P, V) ==
    /\ writes < MaxDbWrites
    /\ Len(db) < MaxRows
    /\ \E p \in P, v \in V : db' = Append(db, Row(Len(db) + 1, p, v))
    /\ writes' = writes + 1
    /\ UNCHANGED <<now, conn, rq, dfc, plot, fmt, sf, pred, clients, run, ticks, forecasts>>

\* Another client of the store updates the volume of a row.
DbUpdate(V) ==
    /\ writes < MaxDbWrites
    /\ \E i \in 1..Len(db) : \E v \in V \ {db[i].volume} :
          db' = [db EXCEPT ![i].volume = v]
    /\ writes' = writes + 1
    /\ UNCHANGED <<now, conn, rq, dfc, plot, fmt, sf, pred, clients, run, ticks, forecasts>>

\* A step that is an execution of the script: the store is left alone and
\* the clock moves by no more than create_dataframe takes.
RunStep == UNCHANGED <<db, writes>> /\ now' - now \in Delays

(* The dashboard in use: every interaction, over tables of well-formed rows. *)

UiVolumes == {StrV(<<"5">>)}
UiTables == TablesOver(Parts, UiVolumes)
UiHorizons == {SliderMin, SliderMax}

Init == InitIn(UiTables)

Next ==
    \/ UserLoad({0})
    \/ UserRerun({0})
    \/ UserSelect(Len(PartOrder), {0})
    \/ UserSlide(UiHorizons, {0})
    \/ UserPress({0})

Spec == Init /\ [][Next]_vars

(* The dashboard while the table grows: the table is loaded again when its *)
(* time-to-live has passed.                                                *)

NextReload ==
    \/ UserLoad({0})
    \/ UserSelect(1, {0})
    \/ UserPress({0})
    \/ Tick({TTL})
    \/ DbInsert(Parts, UiVolumes)

SpecReload == InitIn({<<>>}) /\ [][NextReload]_vars

(* The loading of the table: page loads over any table, well-formed or not, *)
(* with time passing up to and past the time-to-live.                       *)

\* The volumes other clients write, and the tables the process can start over.
LoadVolumes == {IntV(3), StrV(<<"-", "1", "2">>), StrV(<<"x">>)}
LoadTables == TablesOver({"A"}, {IntV(3), NullV})

InitLoad == InitIn(LoadTables)

NextLoad ==
    \/ UserLoad(Delays)
    \/ Tick({TTL - 1, TTL})
    \/ DbInsert({"A"}, LoadVolumes)
    \/ DbUpdate(LoadVolumes)

SpecLoad == InitLoad /\ [][NextLoad]_vars

----------------------------------------------------------------------------
(* Properties *)

IsInteger(v) == v.kind = "int" /\ v.n \in Int

\* The rows run_query holds, and the frame create_dataframe holds.
LoadedRows == rq[NoArgs].value
LoadedFrame == dfc[NoArgs].value

\* The latest execution stopped before the subheader: only the title is shown
\* and nothing after create_dataframe has run.
StoppedAtLoad ==
    /\ run.ui = {"title"}
    /\ run.options = <<>> /\ run.product_ids = <<>>
    /\ run.plotCalls = 0 /\ run.mpCalls = 0 /\ run.forecastCalls = 0

\* C4: create_dataframe either returns a table whose volume values are all
\* integers (each the integer its record held), or, when a volume of the
\* loaded records does not convert, fails as a whole: no table is returned
\* or cached and the execution stops before the multiselect, the plot and the
\* forecast panel.
C4_VolumeIntegerOrFail ==
    /\ Cached(dfc, NoArgs) =>
          \A i \in 1..Len(LoadedFrame.rows) : IsInteger(LoadedFrame.rows[i].volume)
    /\ run.err = "none" /\ run.ui # {} =>
          \A i \in 1..Len(run.df.rows) : IsInteger(run.df.rows[i].volume)
    /\ run.dfRebuilt =>
          /\ Len(run.df.rows) = Len(LoadedRows)
          /\ \A i \in 1..Len(LoadedRows) :
                /\ Convertible(LoadedRows[i].volume)
                /\ run.df.rows[i] = [LoadedRows[i] EXCEPT !.volume = ToInt(@)]
    /\ run.dfBuilds > 0 /\ run.err # "query" /\
       (\E i \in 1..Len(LoadedRows) : ~Convertible(LoadedRows[i].volume)) =>
          /\ run.err = "ValueError"
          /\ run.df = NoFrame
          /\ ~CachedFresh(dfc, NoArgs, now)
          /\ StoppedAtLoad

\* C4 witness: a table with a volume that converts and one that does not was
\* loaded, and the execution failed on it.
C4_Witness ==
    /\ run.err = "ValueError"
    /\ Cached(rq, NoArgs)
    /\ \E i, j \in 1..Len(LoadedRows) :
          Convertible(LoadedRows[i].volume) /\ ~Convertible(LoadedRows[j].volume)

\* C5: a call of run_query less than 600 seconds after its stored result
\* issues no query and leaves the stored result alone; a call at or after the
\* expiry issues exactly one query of the whole table and, when the store
\* answers, stores the table as it is now.
C5_QueryOnlyAfterTtl ==
    [][RunStep /\ run'.rqCalls > 0 =>
          IF Cached(rq, NoArgs) /\ now - rq[NoArgs].at < TTL
          THEN run'.dbQueries = 0 /\ rq' = rq
          ELSE /\ run'.dbQueries = 1
               /\ run'.err # "query" => rq'[NoArgs] = [at |-> now, value |-> db]
               /\ run'.err = "query" => rq' = rq]_vars

\* C5 witness: run_query was called while its stored result was less than
\* 600 seconds old, and no query was issued.
C5_Witness ==
    /\ run.rqCalls = 1 /\ run.dbQueries = 0
    /\ Cached(rq, NoArgs) /\ now - rq[NoArgs].at < TTL /\ now > rq[NoArgs].at

\* C7: at most one client is ever constructed; once init_connection has
\* succeeded every execution gets that one handle and calls create_client
\* no more; a failed construction stores nothing and stops the execution
\* before anything is rendered or queried.
C7_OneClient ==
    /\ clients <= 1
    /\ run.clientCalls <= 1
    /\ Cached(conn, NoArgs) => conn[NoArgs] = 1 /\ clients = 1
    /\ run.supabase # 0 => Cached(conn, NoArgs) /\ run.supabase = conn[NoArgs]
    /\ run.clientCalls = 1 /\ run.err # "connection" => run.supabase = clients
    /\ run.err = "connection" =>
          /\ ~Cached(conn, NoArgs) /\ clients = 0
          /\ run.supabase = 0
          /\ run.ui = {} /\ run.rqCalls = 0 /\ run.dbQueries = 0 /\ run.dfBuilds = 0

\* C7 witness: an execution after the one that constructed the client was
\* handed the memoized handle, and queried the store with it.
C7_Witness ==
    /\ clients = 1 /\ run.clientCalls = 0 /\ run.supabase = 1
    /\ run.dbQueries = 1

\* C7 as stated: create_client is called at most once over the executions
\* of one process, so an execution that follows one that called it does not
\* call it.
C7_CalledAtMostOnce ==
    [][RunStep /\ run.clientCalls > 0 => run'.clientCalls = 0]_vars

RunKey == <<run.product_ids, run.horizon>>

Forbidden == {"slider", "button", "download"}

\* C1: in an execution whose multiselect selection is empty a warning is
\* shown, make_predictions and the library's forecast are not invoked, and no
\* slider, Forecast button or download button is rendered, whatever the
\* caches hold.
C1_EmptySelectionWarns ==
    "multiselect" \in run.ui /\ Len(run.product_ids) = 0 =>
        /\ "warning" \in run.ui
        /\ run.mpCalls = 0 /\ run.fmtCalls = 0 /\ run.forecastCalls = 0
        /\ run.ui \cap Forbidden = {}
        /\ run.horizon = 0 /\ ~run.forecast_btn
        /\ run.download = NoDownload /\ run.csv_file = NoCsv

\* C1 witness: an execution with an empty selection showed the warning while
\* the caches held plots and forecasts of earlier executions.
C1_Witness ==
    /\ "warning" \in run.ui /\ run.product_ids = <<>>
    /\ pred # <<>> /\ Cardinality(DOMAIN plot) > 1

FrameIds(f) == {f.rows[i].unique_id : i \in 1..Len(f.rows)}
ModelColumns == {"unique_id", "ds", "y"}

\* C2: every frame format_dataset returns for a selection ids, computed or
\* memoized, has the columns unique_id, ds and y, no id column, and exactly
\* the identifiers of ids as its unique_id values.
C2_FormatExact ==
    /\ \A ids \in DOMAIN fmt :
          /\ fmt[ids].columns = ModelColumns
          /\ \A i \in 1..Len(fmt[ids].rows) : DOMAIN fmt[ids].rows[i] = ModelColumns
          /\ FrameIds(fmt[ids]) = Range(ids)
    /\ run.fmtCalls > 0 /\ run.err # "KeyError" =>
          /\ Cached(fmt, run.product_ids)
          /\ run.product_ids \in Selections(run.options) \ {<<>>}
    /\ run.forecastCalls > 0 => run.fmtCalls = 1 /\ run.forecastCalls = 1
    /\ "multiselect" \in run.ui =>
          \A ids \in Selections(run.options) \ {<<>>} :
              /\ FormatFrame(run.df, ids).columns = ModelColumns
              /\ FrameIds(FormatFrame(run.df, ids)) = Range(ids)

\* C2 witness: after the table was loaded again, format_dataset answered from
\* its memoized result, which is not the frame of the table now loaded.
C2_Witness ==
    /\ run.fmtCalls = 1 /\ Cached(fmt, run.product_ids)
    /\ fmt[run.product_ids] # FormatFrame(run.df, run.product_ids)

RowsFor(csv, p) == Cardinality({k \in 1..Len(csv.rows) : csv.rows[k].unique_id = p})

\* A CSV with a header row and exactly h data rows for each identifier of ids.
HRowsEach(csv, ids, h) ==
    /\ csv.header # <<>>
    /\ Len(csv.rows) = h * Len(ids)
    /\ \A p \in Range(ids) : RowsFor(csv, p) = h

\* C3: the slider value is within 1..12 and is the horizon handed to the
\* forecasting library; every CSV make_predictions returns for a selection
\* and a horizon h has a header row and exactly h data rows per selected
\* identifier, and so has the CSV of every horizon of 1..12 and every
\* non-empty selection over the table loaded.
C3_HorizonRows ==
    /\ "slider" \in run.ui => run.horizon \in 1..12
    /\ run.forecastCalls > 0 => run.forecast_h = run.horizon /\ run.horizon \in 1..12
    /\ run.mpCalls > 0 /\ run.err = "none" =>
          Cached(pred, RunKey) /\ run.csv_file = pred[RunKey]
    /\ \A key \in DOMAIN pred :
          /\ key[1] # <<>> /\ key[2] \in 1..12
          /\ HRowsEach(pred[key], key[1], key[2])
    /\ "multiselect" \in run.ui =>
          \A h \in SliderMin..SliderMax : \A ids \in Selections(run.options) \ {<<>>} :
              HRowsEach(to_csv(Forecast(FormatFrame(run.df, ids), h)), ids, h)

\* C3 witness: a forecast over twelve periods for two identifiers was made.
C3_Witness ==
    /\ run.forecastCalls = 1 /\ run.err = "none"
    /\ run.horizon = 12 /\ Len(run.product_ids) = 2
    /\ Len(run.csv_file.rows) = 24

\* C6: no state persists from one execution to a later one except the
\* memoized connection and the cached query results; the results of
\* plot_volume, format_dataset and make_predictions in an execution are
\* determined by its arguments and the table loaded in it.
C6_ResultsFromLoadedTable ==
    /\ "chart" \in run.ui => run.chart = Figure(run.df, run.product_ids)
    /\ run.fmtCalls > 0 /\ run.err # "KeyError" =>
          fmt[run.product_ids] = FormatFrame(run.df, run.product_ids)
    /\ run.mpCalls > 0 /\ run.err = "none" =>
          run.csv_file = to_csv(Forecast(FormatFrame(run.df, run.product_ids), run.horizon))

\* C8: the download button is rendered only in an execution with a non-empty
\* selection in which the Forecast button was pressed and make_predictions
\* returned; it offers, as prediction.csv, the CSV make_predictions returned
\* for the selection and the slider's horizon; without a press there is no
\* download button.
C8_DownloadAfterForecast ==
    /\ "download" \in run.ui =>
          /\ run.product_ids # <<>> /\ run.forecast_btn /\ run.err = "none"
          /\ run.mpCalls = 1
          /\ Cached(pred, RunKey) /\ run.csv_file = pred[RunKey]
          /\ run.download = [data |-> pred[RunKey], file_name |-> "prediction.csv",
                             mime |-> "text/csv"]
    /\ "download" \notin run.ui => run.download = NoDownload
    /\ ~run.forecast_btn => "download" \notin run.ui /\ run.mpCalls = 0
    /\ run.forecast_btn /\ run.err = "none" => "download" \in run.ui

\* C8 witness: a download was offered for a horizon other than the slider's
\* default, while the cache also held the forecast of another horizon.
C8_Witness ==
    /\ "download" \in run.ui /\ run.horizon = 12
    /\ Cached(pred, <<run.product_ids, 1>>)

\* C9: a forecast that raises ends make_predictions: no CSV, no download
\* button, nothing stored for (ids, h) and one invocation only; a press for
\* a key that is not stored invokes the library (once), and a press for a
\* stored key returns the stored CSV without invoking it.
C9_FailureNotStored ==
    [][RunStep /\ run'.mpCalls > 0 =>
          LET key == <<run'.product_ids, run'.horizon>>
          IN  IF Cached(pred, key)
              THEN /\ run'.forecastCalls = 0 /\ forecasts' = forecasts
                   /\ pred' = pred
                   /\ run'.err = "none" /\ run'.csv_file = pred[key]
              ELSE /\ run'.forecastCalls = 1 /\ forecasts' = forecasts + 1
                   /\ run'.err = IF run'.raised THEN "forecast" ELSE "none"
                   /\ run'.raised =>
                         /\ pred' = pred
                         /\ run'.csv_file = NoCsv
                         /\ "download" \notin run'.ui /\ run'.download = NoDownload
                   /\ ~run'.raised =>
                         /\ DOMAIN pred' = DOMAIN pred \cup {key}
                         /\ run'.csv_file = pred'[key]]_vars

\* C9 witness: after a forecast had failed, a press for the same selection
\* invoked the library again, and its result is the only one stored.
C9_Witness ==
    /\ run.err = "none" /\ run.forecastCalls = 1 /\ forecasts = 2
    /\ DOMAIN pred = {RunKey} /\ DOMAIN fmt = {run.product_ids}

====
